---- MODULE Spec2Model ----
(***************************************************************************)
(* Cine Norte content pipeline: the orchestration of                        *)
(* CineNorteSystem.generate_content / generate_batch_content (main.py) and  *)
(* the fallback chains of the stages it calls.  External libraries (TMDB,   *)
(* OpenAI, gTTS, pyttsx3, whisper, moviepy, PIL, the file system) are the   *)
(* environment: each call into them either succeeds or raises, chosen with  *)
(* \E in the action that makes the call.                                    *)
(***************************************************************************)
EXTENDS Integers, Sequences, FiniteSets, TLC

\* ---------------------------------------------------------------- bounds
\* longest list one TMDB request answers with
MaxList == 1
\* largest count passed to generate_batch_content
MaxCount == 2

\* ---------------------------------------------------------------- values
\* Python None for object-valued names
NoneObj == [kind |-> "None"]

IsNone(x) == x = NoneObj

\* ContentItem (only the fields the modelled code reads); overview_none is
\* a JSON null overview, kept as None by item.get("overview", "")
ContentItem(t, r, p, n) ==
    [kind |-> "ContentItem", title |-> t, rating |-> r, popularity |-> p,
     overview_none |-> n]

Items ==
    { ContentItem("A", 8, 50, FALSE),
      ContentItem("B", 7, 90, TRUE),
      ContentItem("C", 5, 20, FALSE) }

RECURSIVE SeqsUpTo(_, _)
SeqsUpTo(S, n) ==
    IF n = 0 THEN { <<>> }
    ELSE LET shorter == SeqsUpTo(S, n - 1)
         IN  shorter \cup { Append(s, x) : s \in shorter, x \in S }

\* what one TMDB list request can answer
Feeds == SeqsUpTo(Items, MaxList)

Take(s, n) == IF Len(s) <= n THEN s ELSE SubSeq(s, 1, n)

\* ------------------------------------------------ ContentAnalyzer helpers
min_rating == 6
min_popularity == 10

RECURSIVE filter_by_criteria(_)
filter_by_criteria(content_list) ==
    IF content_list = <<>> THEN <<>>
    ELSE LET item == Head(content_list)
             rest == filter_by_criteria(Tail(content_list))
         IN  IF item.rating < min_rating \/ item.popularity < min_popularity
             THEN rest
             ELSE <<item>> \o rest

\* list.sort(key=popularity, reverse=True): stable insertion by descending key
RECURSIVE InsertDesc(_, _)
InsertDesc(x, s) ==
    IF s = <<>> THEN <<x>>
    ELSE IF Head(s).popularity >= x.popularity
         THEN <<Head(s)>> \o InsertDesc(x, Tail(s))
         ELSE <<x>> \o s

RECURSIVE SortByPopularity(_)
SortByPopularity(s) ==
    IF s = <<>> THEN <<>>
    ELSE LET sortedInit == SortByPopularity(SubSeq(s, 1, Len(s) - 1))
         IN  InsertDesc(s[Len(s)], sortedInit)

get_recommended_content(trending, recent_movies, recent_series, limit) ==
    LET all_content == Take(trending, 5) \o Take(recent_movies, 3)
                          \o Take(recent_series, 2)
        filtered == SortByPopularity(filter_by_criteria(all_content))
    IN  Take(filtered, limit)

\* ------------------------------------------------------- _select_content
\* query = "" models content_query None; exc: a source raised
select_content(query, results, recommended, trending, exc) ==
    IF exc THEN NoneObj
    ELSE IF query # "" /\ results # <<>> THEN results[1]
    ELSE IF recommended # <<>> THEN recommended[1]
    ELSE IF trending # <<>> THEN trending[1]
    ELSE NoneObj


\* every list get_recommended_content(limit) can answer
RecommendedLists(limit) ==
    { get_recommended_content(t, m, s, limit) : t \in Feeds, m \in Feeds, s \in Feeds }

Recommended5 == RecommendedLists(5)

\* ---------------------------------------------------------------- state
VARIABLES
    \* CineNorteSystem.generate_content: position, stage being executed,
    \* stages invoked so far in this call, argument, locals, return value
    pc, active, log, content_query,
    content, script, voice_path, subtitles, video_project, video_paths,
    thumbnail_paths, impact_analysis, seo_data,
    script_path, subtitles_srt, subtitles_vtt, analysis_report,
    result, propagated,
    \* VoiceGenerator.whisper_model, set by the constructor
    whisper_model,
    \* CineNorteSystem.generate_batch_content
    bpc, count, contents, bi, results, batch_result

gcLocals == <<content, script, voice_path, subtitles, video_project, video_paths,
              thumbnail_paths, impact_analysis, seo_data,
              script_path, subtitles_srt, subtitles_vtt, analysis_report>>

gcVars == <<pc, active, log, content_query, gcLocals, result, propagated, whisper_model>>

batchVars == <<bpc, count, contents, bi, results, batch_result>>

VARIABLES
    \* MultiFormatGenerator.generate_all_formats / generate_thumbnails:
    \* position, argument, loop index, the dict being built, how often
    \* generate_format / _create_thumbnail ran per format and what it returned
    mf_pc, mf_project, format_index, mf_output_paths, attempts, returned,
    mf_thumbnails, drawn

mfVars == <<mf_pc, mf_project, format_index, mf_output_paths, attempts, returned,
            mf_thumbnails, drawn>>

VARIABLES
    \* VoiceGenerator.generate_voice_with_elevenlabs: position, arguments,
    \* the configured API key, engines tried and engines that succeeded
    vg_pc, vg_script_text, vg_output_path, elevenlabs_key, tried, succeeded, vg_result

vgVars == <<vg_pc, vg_script_text, vg_output_path, elevenlabs_key, tried, succeeded, vg_result>>

VARIABLES
    \* VoiceSynthesizer.synthesize_script: position, the sections of the
    \* script argument, loop index, locals, the sections gTTS answered for,
    \* and the first component of the returned pair
    vs_pc, sections, section_index, audio_segments, subtitle_cues, current_time,
    spoken, final_audio_path

vsVars == <<vs_pc, sections, section_index, audio_segments, subtitle_cues, current_time,
            spoken, final_audio_path>>

VARIABLES
    \* ScriptGenerator.generate_script (src/script_generator.py): position,
    \* arguments, what the OpenAI call did, the returned script, and whether
    \* the call ended in an exception
    sg_pc, sg_content, target_platform, style, llm, sg_result, sg_raised

sgVars == <<sg_pc, sg_content, target_platform, style, llm, sg_result, sg_raised>>

VARIABLES
    \* CineNorteAutomation.run_full_workflow: position, argument, the results
    \* dict, what each stage that returned gave back, the stage that raised,
    \* and whether projects/<date>_<title> exists on disk
    wf_pc, wf_content, wf_results, stage_value, wf_failed, project_path_exists

wfVars == <<wf_pc, wf_content, wf_results, stage_value, wf_failed, project_path_exists>>

VARIABLES
    \* AIOptimizer._calculate_overall_score: position, arguments, return value
    os_pc, os_args, overall_score

osVars == <<os_pc, os_args, overall_score>>

VARIABLES
    \* CineNorteSystem._select_content: position, argument, the sources
    \* consulted so far, what each answered, the source that raised, and the
    \* return value
    sel_pc, sel_query, consulted, answers, sel_raised, selected

selVars == <<sel_pc, sel_query, consulted, answers, sel_raised, selected>>

\* the variables each group of operations never touches
nonGC == <<mfVars, vgVars, vsVars, sgVars, wfVars, osVars, selVars>>

nonMF == <<gcVars, batchVars, vgVars, vsVars, sgVars, wfVars, osVars, selVars>>

nonVG == <<gcVars, batchVars, mfVars, vsVars, sgVars, wfVars, osVars, selVars>>

nonVS == <<gcVars, batchVars, mfVars, vgVars, sgVars, wfVars, osVars, selVars>>

nonSG == <<gcVars, batchVars, mfVars, vgVars, vsVars, wfVars, osVars, selVars>>

nonWF == <<gcVars, batchVars, mfVars, vgVars, vsVars, sgVars, osVars, selVars>>

nonOS == <<gcVars, batchVars, mfVars, vgVars, vsVars, sgVars, wfVars, selVars>>

nonSel == <<gcVars, batchVars, mfVars, vgVars, vsVars, sgVars, wfVars, osVars>>

\* --------------------------------------------------------- stage order
\* the calls of generate_content in program order (main.py 68..116)
StageOrder ==
    << "select", "script", "voice", "subtitles", "project", "formats",
       "thumbnails", "impact", "seo",
       "save_script", "save_srt", "save_vtt", "save_report" >>

Stages == { StageOrder[i] : i \in 1..Len(StageOrder) }

StageIndex(s) == CHOOSE i \in 1..Len(StageOrder) : StageOrder[i] = s

\* a plausible slip: subtitles are requested before the voice file exists
NextStage_subtitles_first(s) ==
    IF s = "script" THEN "subtitles"
    ELSE IF s = "subtitles" THEN "voice"
    ELSE IF s = "voice" THEN "project"
    ELSE IF StageIndex(s) = Len(StageOrder) THEN "compile"
    ELSE StageOrder[StageIndex(s) + 1]

\* the statement that follows stage s when s returns normally
NextStage(s) ==
    IF StageIndex(s) = Len(StageOrder) THEN "compile"
    ELSE StageOrder[StageIndex(s) + 1]

\* ------------------------------------------------------ stage functions
Raised == [kind |-> "Raised"]

RaisedStr == "<raised>"

EmptyDict == [x \in {} |-> ""]

DictPut(d, k, v) == [x \in (DOMAIN d) \cup {k} |-> IF x = k THEN v ELSE d[x]]

\* ScriptGenerator.generate_script (src/src): the text comes from OpenAI or,
\* inside _generate_script_text, from the template; the rest is computed from
\* the content alone, so what raises in the try block (len(None) in
\* _generate_description) raises again in _create_fallback_script, which runs
\* in the except clause
generate_script(c, llm_ok) ==
    IF c.overview_none THEN Raised
    ELSE [kind |-> "GeneratedScript",
          title |-> "Analisis de " \o c.title \o " - Cine Norte",
          content_title |-> c.title,
          raw_text |-> IF llm_ok THEN "openai_text" ELSE "template_text"]

\* "if not output_path: output_path = self.temp_dir / ..."
OutputOrDefault(output_path, default) ==
    IF output_path = "" THEN default ELSE output_path

\* a plausible slip: the path is returned although pyttsx3 raised
generate_fallback_voice_ignores_error(script_text, output_path, pyttsx3_ok) ==
    output_path

\* VoiceGenerator._generate_fallback_voice (pyttsx3)
generate_fallback_voice(script_text, output_path, pyttsx3_ok) ==
    IF pyttsx3_ok THEN output_path ELSE ""

\* VoiceGenerator.generate_voice_from_script (gTTS); output_path "" is None
generate_voice_from_script(script_text, output_path, gtts_ok, pyttsx3_ok) ==
    LET out == OutputOrDefault(output_path, "temp/audio/generated_voice.mp3")
    IN  IF gtts_ok THEN out
        ELSE generate_fallback_voice(script_text, out, pyttsx3_ok)

\* VoiceGenerator._generate_basic_subtitles
generate_basic_subtitles(script_text) ==
    IF script_text = "" THEN "no_subtitles" ELSE "basic_subtitles"

\* VoiceGenerator.generate_subtitles
generate_subtitles(audio_path, script_text, model, transcribe_ok) ==
    IF model = "None" THEN generate_basic_subtitles(script_text)
    ELSE IF transcribe_ok /\ audio_path # "" THEN "whisper_subtitles"
    ELSE generate_basic_subtitles(script_text)

\* VideoEditor.create_video_project
create_video_project(s, ok) ==
    IF ok THEN [kind |-> "VideoProject", title |-> s.title] ELSE NoneObj

\* MultiFormatGenerator._initialize_formats, in dict order
FormatOrder ==
    << "youtube", "tiktok", "instagram_reel", "instagram_post", "facebook", "twitter" >>

Formats == { FormatOrder[i] : i \in 1..Len(FormatOrder) }

\* MultiFormatGenerator.generate_format: project.title on None and a failed
\* render both end in the except clause
generate_format(project, format_name, render_ok) ==
    IF format_name \notin Formats THEN ""
    ELSE IF IsNone(project) THEN ""
    ELSE IF render_ok THEN "output/" \o format_name \o "/" \o project.title \o "_" \o format_name \o ".mp4"
    ELSE ""

\* a plausible slip: the key is stored whatever generate_format returned
FormatStep_always_stores(output_paths, project, format_name, render_ok) ==
    DictPut(output_paths, format_name, generate_format(project, format_name, render_ok))

\* one iteration of the loop of generate_all_formats (lines 122-132)
FormatStep(output_paths, project, format_name, render_ok) ==
    LET output_path == generate_format(project, format_name, render_ok)
    IN  IF output_path # "" THEN DictPut(output_paths, format_name, output_path)
        ELSE output_paths

RECURSIVE FormatLoop(_, _, _, _)
FormatLoop(output_paths, project, todo, ok_formats) ==
    IF todo = <<>> THEN output_paths
    ELSE FormatLoop(FormatStep(output_paths, project, Head(todo), Head(todo) \in ok_formats),
                    project, Tail(todo), ok_formats)

\* MultiFormatGenerator.generate_all_formats: the directories are made
\* outside any try block
generate_all_formats(project, mkdir_ok, ok_formats) ==
    IF ~mkdir_ok THEN Raised
    ELSE FormatLoop(EmptyDict, project, FormatOrder, ok_formats)

\* _create_thumbnail reads format_name (line 634), a name it never binds
format_name_bound == FALSE

\* MultiFormatGenerator._create_thumbnail
create_thumbnail(project, format_name, draw_ok) ==
    IF IsNone(project) THEN ""
    ELSE IF ~draw_ok THEN ""
    ELSE IF ~format_name_bound THEN ""
    ELSE "output/" \o format_name \o "/thumbnail_" \o format_name \o ".png"

\* one iteration of the loop of generate_thumbnails (lines 577-580)
ThumbnailStep(thumbnails, project, format_name, draw_ok) ==
    LET thumbnail_path == create_thumbnail(project, format_name, draw_ok)
    IN  IF thumbnail_path # "" THEN DictPut(thumbnails, format_name, thumbnail_path)
        ELSE thumbnails

RECURSIVE ThumbnailLoop(_, _, _, _)
ThumbnailLoop(thumbnails, project, todo, ok_formats) ==
    IF todo = <<>> THEN thumbnails
    ELSE ThumbnailLoop(ThumbnailStep(thumbnails, project, Head(todo), Head(todo) \in ok_formats),
                       project, Tail(todo), ok_formats)

\* MultiFormatGenerator.generate_thumbnails
generate_thumbnails(project, ok_formats) ==
    ThumbnailLoop(EmptyDict, project, FormatOrder, ok_formats)

\* AIOptimizer.analyze_content_impact / _create_fallback_analysis
analyze_content_impact(project, ok) ==
    [kind |-> "ImpactAnalysis",
     src |-> IF ok /\ ~IsNone(project) THEN "computed" ELSE "fallback"]

\* ThumbnailGenerator.generate_seo_data / _create_fallback_seo_data
generate_seo_data(s, ok) ==
    [kind |-> "SEOData", title |-> s.title,
     src |-> IF ok THEN "computed" ELSE "fallback"]

\* ScriptGenerator.save_script_to_file: open() is not inside a try block
save_script_to_file(s, open_ok) ==
    IF open_ok THEN "output/guion_" \o s.content_title \o ".txt" ELSE RaisedStr

\* VoiceGenerator.save_subtitles_srt / save_subtitles_vtt
save_subtitles(subs, output_path, ok) == IF ok THEN output_path ELSE ""

\* AIOptimizer.save_analysis_report
save_analysis_report(analysis, output_path, ok) == IF ok THEN output_path ELSE ""


\* ------------------------------------------- CineNorteSystem.generate_content
\* the inputs a caller passes as content_query ("" is None)
Queries == { "" } \cup { c.title : c \in Items }

\* what generate_all_formats can find rendered: nothing, one format, all
RenderOutcomes == { {}, {"youtube"}, Formats \ {"tiktok"}, Formats }

LocalsInit ==
    /\ content = NoneObj
    /\ script = NoneObj
    /\ voice_path = ""
    /\ subtitles = ""
    /\ video_project = NoneObj
    /\ video_paths = EmptyDict
    /\ thumbnail_paths = EmptyDict
    /\ impact_analysis = NoneObj
    /\ seo_data = NoneObj
    /\ script_path = ""
    /\ subtitles_srt = ""
    /\ subtitles_vtt = ""
    /\ analysis_report = ""

\* the locals die with the frame
LocalsReset ==
    /\ content' = NoneObj
    /\ script' = NoneObj
    /\ voice_path' = ""
    /\ subtitles' = ""
    /\ video_project' = NoneObj
    /\ video_paths' = EmptyDict
    /\ thumbnail_paths' = EmptyDict
    /\ impact_analysis' = NoneObj
    /\ seo_data' = NoneObj
    /\ script_path' = ""
    /\ subtitles_srt' = ""
    /\ subtitles_vtt' = ""
    /\ analysis_report' = ""

\* a plausible slip: the handler only covers content selection, so an
\* exception of a later stage leaves generate_content
Raise_narrow_handler(msg) ==
    /\ pc' = "done"
    /\ active' = "none"
    /\ result' = IF pc = "select" THEN [error |-> msg] ELSE NoneObj
    /\ propagated' = (pc # "select")
    /\ LocalsReset
    /\ UNCHANGED <<log, content_query, whisper_model>>

\* an exception inside the try block: "except Exception as e" (lines 154-156)
Raise(msg) ==
    /\ pc' = "done"
    /\ active' = "none"
    /\ result' = [error |-> msg]
    /\ propagated' = FALSE
    /\ LocalsReset
    /\ UNCHANGED <<log, content_query, whisper_model>>

\* the stage that is executing returns and control moves to the next call
Return ==
    /\ pc' = NextStage(pc)
    /\ active' = "none"
    /\ UNCHANGED <<log, content_query, result, propagated, whisper_model>>

Running(s) == pc = s /\ active = s

\* generate_content is called directly (cine_norte CLI, main.py 350)
GCCall ==
    /\ bpc = "idle" /\ pc = "idle"
    /\ \E q \in Queries : content_query' = q
    /\ pc' = "select"
    /\ log' = <<>>
    /\ UNCHANGED <<active, gcLocals, result, propagated, whisper_model, batchVars, nonGC>>

\* the next call of the body starts: only when nothing else is executing
Invoke ==
    /\ pc \in Stages /\ active = "none"
    /\ active' = pc
    /\ log' = Append(log, pc)
    /\ UNCHANGED <<pc, content_query, gcLocals, result, propagated, whisper_model, batchVars, nonGC>>

\* a slip: the "if not content" test is missing and the pipeline goes on
SelectStage_unchecked ==
    /\ Running("select")
    /\ \E found \in Feeds, recommended \in Recommended5, trending \in Feeds, exc \in BOOLEAN :
         /\ content' = select_content(content_query, found, recommended, trending, exc)
         /\ Return
         /\ UNCHANGED <<script, voice_path, subtitles, video_project, video_paths,
                        thumbnail_paths, impact_analysis, seo_data,
                        script_path, subtitles_srt, subtitles_vtt, analysis_report>>
    /\ UNCHANGED <<batchVars, nonGC>>

\* 1. content = self._select_content(...); if not content: raise
SelectStage ==
    /\ Running("select")
    /\ \E found \in Feeds, recommended \in Recommended5, trending \in Feeds, exc \in BOOLEAN :
         LET c == select_content(content_query, found, recommended, trending, exc)
         IN  IF IsNone(c)
             THEN Raise("No se pudo seleccionar contenido")
             ELSE /\ content' = c
                  /\ Return
                  /\ UNCHANGED <<script, voice_path, subtitles, video_project, video_paths,
                                 thumbnail_paths, impact_analysis, seo_data,
                                 script_path, subtitles_srt, subtitles_vtt, analysis_report>>
    /\ UNCHANGED <<batchVars, nonGC>>

\* 2. script = self.script_generator.generate_script(content, style)
ScriptStage ==
    /\ Running("script")
    /\ \E llm_ok \in BOOLEAN :
         LET s == generate_script(content, llm_ok)
         IN  IF s = Raised
             THEN Raise("object of type 'NoneType' has no len()")
             ELSE /\ script' = s
                  /\ Return
                  /\ UNCHANGED <<content, voice_path, subtitles, video_project, video_paths,
                                 thumbnail_paths, impact_analysis, seo_data,
                                 script_path, subtitles_srt, subtitles_vtt, analysis_report>>
    /\ UNCHANGED <<batchVars, nonGC>>

\* 3. voice_path = self.voice_generator.generate_voice_from_script(script.raw_text)
VoiceStage ==
    /\ Running("voice")
    /\ \E gtts_ok \in BOOLEAN, pyttsx3_ok \in BOOLEAN :
         voice_path' = generate_voice_from_script(script.raw_text, "", gtts_ok, pyttsx3_ok)
    /\ Return
    /\ UNCHANGED <<content, script, subtitles, video_project, video_paths,
                   thumbnail_paths, impact_analysis, seo_data,
                   script_path, subtitles_srt, subtitles_vtt, analysis_report>>
    /\ UNCHANGED <<batchVars, nonGC>>

\* 4. subtitles = self.voice_generator.generate_subtitles(voice_path, script.raw_text)
SubtitlesStage ==
    /\ Running("subtitles")
    /\ \E transcribe_ok \in BOOLEAN :
         subtitles' = generate_subtitles(voice_path, script.raw_text, whisper_model, transcribe_ok)
    /\ Return
    /\ UNCHANGED <<content, script, voice_path, video_project, video_paths,
                   thumbnail_paths, impact_analysis, seo_data,
                   script_path, subtitles_srt, subtitles_vtt, analysis_report>>
    /\ UNCHANGED <<batchVars, nonGC>>

\* 5. video_project = self.video_editor.create_video_project(script)
ProjectStage ==
    /\ Running("project")
    /\ \E ok \in BOOLEAN : video_project' = create_video_project(script, ok)
    /\ Return
    /\ UNCHANGED <<content, script, voice_path, subtitles, video_paths,
                   thumbnail_paths, impact_analysis, seo_data,
                   script_path, subtitles_srt, subtitles_vtt, analysis_report>>
    /\ UNCHANGED <<batchVars, nonGC>>

\* 6. video_paths = self.multi_format_generator.generate_all_formats(video_project)
FormatsStage ==
    /\ Running("formats")
    /\ \E mkdir_ok \in BOOLEAN, ok_formats \in RenderOutcomes :
         LET d == generate_all_formats(video_project, mkdir_ok, ok_formats)
         IN  IF d = Raised
             THEN Raise("[Errno 13] Permission denied: 'output'")
             ELSE /\ video_paths' = d
                  /\ Return
                  /\ UNCHANGED <<content, script, voice_path, subtitles, video_project,
                                 thumbnail_paths, impact_analysis, seo_data,
                                 script_path, subtitles_srt, subtitles_vtt, analysis_report>>
    /\ UNCHANGED <<batchVars, nonGC>>

\* 7. thumbnail_paths = self.multi_format_generator.generate_thumbnails(video_project)
ThumbnailsStage ==
    /\ Running("thumbnails")
    /\ \E ok_formats \in RenderOutcomes :
         thumbnail_paths' = generate_thumbnails(video_project, ok_formats)
    /\ Return
    /\ UNCHANGED <<content, script, voice_path, subtitles, video_project, video_paths,
                   impact_analysis, seo_data,
                   script_path, subtitles_srt, subtitles_vtt, analysis_report>>
    /\ UNCHANGED <<batchVars, nonGC>>

\* 8. impact_analysis = self.ai_optimizer.analyze_content_impact(video_project)
ImpactStage ==
    /\ Running("impact")
    /\ \E ok \in BOOLEAN : impact_analysis' = analyze_content_impact(video_project, ok)
    /\ Return
    /\ UNCHANGED <<content, script, voice_path, subtitles, video_project, video_paths,
                   thumbnail_paths, seo_data,
                   script_path, subtitles_srt, subtitles_vtt, analysis_report>>
    /\ UNCHANGED <<batchVars, nonGC>>

\* 9. seo_data = self.thumbnail_generator.generate_seo_data(script)
SeoStage ==
    /\ Running("seo")
    /\ \E ok \in BOOLEAN : seo_data' = generate_seo_data(script, ok)
    /\ Return
    /\ UNCHANGED <<content, script, voice_path, subtitles, video_project, video_paths,
                   thumbnail_paths, impact_analysis,
                   script_path, subtitles_srt, subtitles_vtt, analysis_report>>
    /\ UNCHANGED <<batchVars, nonGC>>

\* 10. script_path = self.script_generator.save_script_to_file(script)
SaveScriptStage ==
    /\ Running("save_script")
    /\ \E open_ok \in BOOLEAN :
         LET p == save_script_to_file(script, open_ok)
         IN  IF p = RaisedStr
             THEN Raise("[Errno 2] No such file or directory")
             ELSE /\ script_path' = p
                  /\ Return
                  /\ UNCHANGED <<content, script, voice_path, subtitles, video_project,
                                 video_paths, thumbnail_paths, impact_analysis, seo_data,
                                 subtitles_srt, subtitles_vtt, analysis_report>>
    /\ UNCHANGED <<batchVars, nonGC>>

\* subtitles_srt = self.voice_generator.save_subtitles_srt(subtitles, "output/subtitles.srt")
SaveSrtStage ==
    /\ Running("save_srt")
    /\ \E ok \in BOOLEAN : subtitles_srt' = save_subtitles(subtitles, "output/subtitles.srt", ok)
    /\ Return
    /\ UNCHANGED <<content, script, voice_path, subtitles, video_project, video_paths,
                   thumbnail_paths, impact_analysis, seo_data,
                   script_path, subtitles_vtt, analysis_report>>
    /\ UNCHANGED <<batchVars, nonGC>>

\* subtitles_vtt = self.voice_generator.save_subtitles_vtt(subtitles, "output/subtitles.vtt")
SaveVttStage ==
    /\ Running("save_vtt")
    /\ \E ok \in BOOLEAN : subtitles_vtt' = save_subtitles(subtitles, "output/subtitles.vtt", ok)
    /\ Return
    /\ UNCHANGED <<content, script, voice_path, subtitles, video_project, video_paths,
                   thumbnail_paths, impact_analysis, seo_data,
                   script_path, subtitles_srt, analysis_report>>
    /\ UNCHANGED <<batchVars, nonGC>>

\* analysis_report = self.ai_optimizer.save_analysis_report(impact_analysis, ...)
SaveReportStage ==
    /\ Running("save_report")
    /\ \E ok \in BOOLEAN :
         analysis_report' = save_analysis_report(impact_analysis, "output/analysis_report.json", ok)
    /\ Return
    /\ UNCHANGED <<content, script, voice_path, subtitles, video_project, video_paths,
                   thumbnail_paths, impact_analysis, seo_data,
                   script_path, subtitles_srt, subtitles_vtt>>
    /\ UNCHANGED <<batchVars, nonGC>>

\* the results dict of lines 119-149
CompileResults ==
    [content |-> [title |-> content.title, rating |-> content.rating],
     files |-> [script |-> script_path, voice |-> voice_path,
                subtitles_srt |-> subtitles_srt, subtitles_vtt |-> subtitles_vtt,
                analysis_report |-> analysis_report],
     videos |-> video_paths,
     thumbnails |-> thumbnail_paths,
     seo_data |-> [title |-> seo_data.title, src |-> seo_data.src],
     analysis |-> [src |-> impact_analysis.src]]

\* results = {...}; return results
Compile ==
    /\ pc = "compile" /\ active = "none"
    /\ result' = CompileResults
    /\ propagated' = FALSE
    /\ pc' = "done"
    /\ LocalsReset
    /\ UNCHANGED <<active, log, content_query, whisper_model, batchVars, nonGC>>

NextGC ==
    \/ GCCall \/ Invoke
    \/ SelectStage \/ ScriptStage \/ VoiceStage \/ SubtitlesStage \/ ProjectStage
    \/ FormatsStage \/ ThumbnailsStage \/ ImpactStage \/ SeoStage
    \/ SaveScriptStage \/ SaveSrtStage \/ SaveVttStage \/ SaveReportStage
    \/ Compile


\* ------------------------------------ CineNorteSystem.generate_batch_content
\* an entry of the batch list: the keys of the dict generate_content
\* returned and the content_query of the call that produced it
Entry(res, query) == [keys |-> DOMAIN res, query |-> query]

\* contents = self.content_analyzer.get_recommended_content(limit=count);
\* an exception there is caught by the outer handler, which returns []
BatchCall ==
    /\ bpc = "idle" /\ pc = "idle"
    /\ \E n \in 0..MaxCount, t \in Feeds, m \in Feeds, s \in Feeds, exc \in BOOLEAN :
         /\ count' = n
         /\ IF exc
            THEN /\ contents' = <<>>
                 /\ batch_result' = <<>>
                 /\ bpc' = "returned"
            ELSE /\ contents' = get_recommended_content(t, m, s, n)
                 /\ batch_result' = <<>>
                 /\ bpc' = "loop"
    /\ bi' = 1
    /\ results' = <<>>
    /\ UNCHANGED <<gcVars, nonGC>>

\* result = self.generate_content(content_query=content.title, ...)
BatchIterate ==
    /\ bpc = "loop" /\ bi <= Len(contents) /\ pc = "idle"
    /\ content_query' = contents[bi].title
    /\ pc' = "select"
    /\ log' = <<>>
    /\ bpc' = "calling"
    /\ UNCHANGED <<active, gcLocals, result, propagated, whisper_model,
                   count, contents, bi, results, batch_result, nonGC>>

\* a plausible slip: an item whose generation failed leaves no entry
BatchCollect_drops_errors ==
    /\ bpc = "calling" /\ pc = "done"
    /\ results' = IF propagated \/ "error" \in DOMAIN result
                  THEN results
                  ELSE Append(results, Entry(result, content_query))
    /\ bi' = bi + 1
    /\ bpc' = "loop"
    /\ pc' = "idle"
    /\ result' = NoneObj
    /\ propagated' = FALSE
    /\ UNCHANGED <<active, log, content_query, gcLocals, whisper_model,
                   count, contents, batch_result, nonGC>>

\* results.append(result), or the error entry of the inner handler when
\* generate_content raised (lines 211-215)
BatchCollect ==
    /\ bpc = "calling" /\ pc = "done"
    /\ results' = IF propagated
                  THEN Append(results, [keys |-> {"error", "content"}, query |-> content_query])
                  ELSE Append(results, Entry(result, content_query))
    /\ bi' = bi + 1
    /\ bpc' = "loop"
    /\ pc' = "idle"
    /\ result' = NoneObj
    /\ propagated' = FALSE
    /\ UNCHANGED <<active, log, content_query, gcLocals, whisper_model,
                   count, contents, batch_result, nonGC>>

\* return results
BatchReturn ==
    /\ bpc = "loop" /\ bi > Len(contents) /\ pc = "idle"
    /\ batch_result' = results
    /\ bpc' = "returned"
    /\ UNCHANGED <<gcVars, count, contents, bi, results, nonGC>>

\* ------------------------- MultiFormatGenerator, called on its own
\* the projects a caller passes: create_video_project's None or a project
Projects == { NoneObj } \cup { create_video_project(generate_script(c, TRUE), TRUE) :
                                 c \in { i \in Items : ~i.overview_none } }

MFInit ==
    /\ mf_pc = "idle"
    /\ mf_project = NoneObj
    /\ format_index = 1
    /\ mf_output_paths = EmptyDict
    /\ attempts = [f \in Formats |-> 0]
    /\ returned = [f \in Formats |-> "not called"]
    /\ mf_thumbnails = EmptyDict
    /\ drawn = {}

\* generate_all_formats(project): output_paths = {}
GenerateAllFormatsCall ==
    /\ mf_pc = "idle"
    /\ \E p \in Projects : mf_project' = p
    /\ mf_pc' = "mkdirs"
    /\ mf_output_paths' = EmptyDict
    /\ UNCHANGED <<format_index, attempts, returned, mf_thumbnails, drawn>>
    /\ UNCHANGED nonMF

\* base_dir.mkdir and the per-format mkdir loop (lines 113-119), outside
\* any try block: a failure leaves the function as an exception
MakeFormatDirs ==
    /\ mf_pc = "mkdirs"
    /\ \E mkdir_ok \in BOOLEAN :
         mf_pc' = IF mkdir_ok THEN "loop" ELSE "raised"
    /\ format_index' = 1
    /\ UNCHANGED <<mf_project, mf_output_paths, attempts, returned, mf_thumbnails, drawn>>
    /\ UNCHANGED nonMF

\* one pass of "for format_name, format_specs in self.formats.items()"
GenerateOneFormat ==
    /\ mf_pc = "loop" /\ format_index <= Len(FormatOrder)
    /\ \E render_ok \in BOOLEAN :
         LET format_name == FormatOrder[format_index]
         IN  /\ attempts' = [attempts EXCEPT ![format_name] = @ + 1]
             /\ returned' = [returned EXCEPT ![format_name] =
                                generate_format(mf_project, format_name, render_ok)]
             /\ mf_output_paths' = FormatStep(mf_output_paths, mf_project, format_name, render_ok)
    /\ format_index' = format_index + 1
    /\ UNCHANGED <<mf_pc, mf_project, mf_thumbnails, drawn>>
    /\ UNCHANGED nonMF

\* return output_paths
GenerateAllFormatsReturn ==
    /\ mf_pc = "loop" /\ format_index > Len(FormatOrder)
    /\ mf_pc' = "returned"
    /\ UNCHANGED <<mf_project, format_index, mf_output_paths, attempts, returned,
                   mf_thumbnails, drawn>>
    /\ UNCHANGED nonMF

\* generate_thumbnails(project): thumbnails = {}
GenerateThumbnailsCall ==
    /\ mf_pc = "idle"
    /\ \E p \in Projects : mf_project' = p
    /\ mf_pc' = "thumbnail_loop"
    /\ mf_thumbnails' = EmptyDict
    /\ format_index' = 1
    /\ drawn' = {}
    /\ UNCHANGED <<mf_output_paths, attempts, returned>>
    /\ UNCHANGED nonMF

\* one pass of the loop of generate_thumbnails; drawn collects the formats
\* whose image was drawn and saved without an error of PIL or the file system
CreateOneThumbnail ==
    /\ mf_pc = "thumbnail_loop" /\ format_index <= Len(FormatOrder)
    /\ \E draw_ok \in BOOLEAN :
         LET format_name == FormatOrder[format_index]
         IN  /\ mf_thumbnails' = ThumbnailStep(mf_thumbnails, mf_project, format_name, draw_ok)
             /\ drawn' = IF draw_ok /\ ~IsNone(mf_project)
                         THEN drawn \cup {format_name} ELSE drawn
    /\ format_index' = format_index + 1
    /\ UNCHANGED <<mf_pc, mf_project, mf_output_paths, attempts, returned>>
    /\ UNCHANGED nonMF

\* return thumbnails
GenerateThumbnailsReturn ==
    /\ mf_pc = "thumbnail_loop" /\ format_index > Len(FormatOrder)
    /\ mf_pc' = "thumbnails_returned"
    /\ UNCHANGED <<mf_project, format_index, mf_output_paths, attempts, returned,
                   mf_thumbnails, drawn>>
    /\ UNCHANGED nonMF

NextFormats ==
    \/ GenerateAllFormatsCall \/ MakeFormatDirs \/ GenerateOneFormat
    \/ GenerateAllFormatsReturn
    \/ GenerateThumbnailsCall \/ CreateOneThumbnail \/ GenerateThumbnailsReturn


\* ------------------- VoiceGenerator.generate_voice_with_elevenlabs
Texts == { "", "Hola cinefilos", "Hola cinefilos. Hoy analizamos A." }

\* output_path arguments ("" is None) and values of API_KEYS["elevenlabs"]
\* ("" is the default of config.py when the variable is not set)
OutputPaths == { "", "output/voice.mp3" }

Keys == { "", "xi-key" }

EngineOrder == << "elevenlabs", "gtts", "pyttsx3" >>

VGInit ==
    /\ vg_pc = "idle"
    /\ vg_script_text = ""
    /\ vg_output_path = ""
    /\ elevenlabs_key = ""
    /\ tried = <<>>
    /\ succeeded = {}
    /\ vg_result = ""

VoiceCall ==
    /\ vg_pc = "idle"
    /\ \E t \in Texts, o \in OutputPaths, k \in Keys :
         /\ vg_script_text' = t
         /\ vg_output_path' = o
         /\ elevenlabs_key' = k
    /\ vg_pc' = "elevenlabs"
    /\ tried' = <<>>
    /\ succeeded' = {}
    /\ vg_result' = ""
    /\ UNCHANGED nonVG

\* lines 115-154: without a key ElevenLabs is skipped; an HTTP error leaves
\* output_path as passed, a failed write leaves it set to the default
ElevenLabsStep ==
    /\ vg_pc = "elevenlabs"
    /\ IF elevenlabs_key = ""
       THEN /\ vg_pc' = "gtts"
            /\ UNCHANGED <<vg_output_path, tried, succeeded, vg_result>>
       ELSE /\ tried' = Append(tried, "elevenlabs")
            /\ \E outcome \in {"ok", "http_error", "write_error"} :
                 LET out == OutputOrDefault(vg_output_path, "temp/audio/elevenlabs_voice.mp3")
                 IN  CASE outcome = "ok" ->
                            /\ vg_result' = out
                            /\ vg_output_path' = out
                            /\ succeeded' = succeeded \cup {"elevenlabs"}
                            /\ vg_pc' = "returned"
                       [] outcome = "http_error" ->
                            /\ vg_pc' = "gtts"
                            /\ UNCHANGED <<vg_output_path, succeeded, vg_result>>
                       [] outcome = "write_error" ->
                            /\ vg_output_path' = out
                            /\ vg_pc' = "gtts"
                            /\ UNCHANGED <<succeeded, vg_result>>
    /\ UNCHANGED <<vg_script_text, elevenlabs_key>>
    /\ UNCHANGED nonVG

\* generate_voice_from_script up to its except clause (lines 76-104)
GttsStep ==
    /\ vg_pc = "gtts"
    /\ tried' = Append(tried, "gtts")
    /\ vg_output_path' = OutputOrDefault(vg_output_path, "temp/audio/generated_voice.mp3")
    /\ \E gtts_ok \in BOOLEAN :
         IF gtts_ok
         THEN /\ vg_result' = vg_output_path'
              /\ succeeded' = succeeded \cup {"gtts"}
              /\ vg_pc' = "returned"
         ELSE /\ vg_pc' = "pyttsx3"
              /\ UNCHANGED <<succeeded, vg_result>>
    /\ UNCHANGED <<vg_script_text, elevenlabs_key>>
    /\ UNCHANGED nonVG

\* return self._generate_fallback_voice(script_text, output_path)
Pyttsx3Step ==
    /\ vg_pc = "pyttsx3"
    /\ tried' = Append(tried, "pyttsx3")
    /\ \E pyttsx3_ok \in BOOLEAN :
         /\ vg_result' = generate_fallback_voice(vg_script_text, vg_output_path, pyttsx3_ok)
         /\ succeeded' = IF pyttsx3_ok THEN succeeded \cup {"pyttsx3"} ELSE succeeded
    /\ vg_pc' = "returned"
    /\ UNCHANGED <<vg_script_text, vg_output_path, elevenlabs_key>>
    /\ UNCHANGED nonVG

NextVoice == VoiceCall \/ ElevenLabsStep \/ GttsStep \/ Pyttsx3Step


\* ------------------------------- VoiceSynthesizer.synthesize_script
MaxSections == 2

\* ScriptSection: content is the list of its sentences, each the number of
\* its words ("" is <<>>); duration_seconds as in the dataclass
ScriptSection(t, c, d, e) ==
    [type |-> t, content |-> c, duration_seconds |-> d, emotion |-> e]

SectionSet ==
    { ScriptSection("intro", <<4, 5>>, 10, "excitement"),
      ScriptSection("hook", <<6>>, 12, "suspense"),
      ScriptSection("plot", <<>>, 60, "drama"),
      ScriptSection("outro", <<3, 3, 8>>, 15, "excitement") }

Scripts == SeqsUpTo(SectionSet, MaxSections)

\* length in ms of the mp3 gTTS produced for a section
AudioLens == { 4000, 11000, 70000 }

\* the module imports pydub's AudioSegment (line 18) and then defines a
\* dataclass of the same name (lines 36-46): AudioSegment.from_mp3,
\* .from_file and .silent are looked up on the dataclass
AudioSegment_is_pydub == FALSE

\* VoiceSynthesizer._synthesize_section: times in ms
synthesize_section(section, index, start_time, gtts_ok, audio_len) ==
    IF ~gtts_ok THEN NoneObj
    ELSE IF ~AudioSegment_is_pydub THEN NoneObj
    ELSE LET target_duration == section.duration_seconds * 1000
             len == IF audio_len > target_duration THEN target_duration ELSE audio_len
         IN  [kind |-> "AudioSegment", section |-> index,
              start_time |-> start_time, end_time |-> start_time + len,
              duration |-> len, emotion |-> section.emotion]

RECURSIVE SumWords(_)
SumWords(ws) == IF ws = <<>> THEN 0 ELSE Head(ws) + SumWords(Tail(ws))

\* VoiceSynthesizer._split_text_for_subtitles: a line is the list of the
\* sentences joined into it
RECURSIVE SplitLoop(_, _, _, _)
SplitLoop(sentences, current_line, lines, max_words_per_line) ==
    IF sentences = <<>>
    THEN IF current_line # <<>> THEN Append(lines, current_line) ELSE lines
    ELSE LET sentence == Head(sentences)
         IN  IF SumWords(current_line) + sentence <= max_words_per_line
             THEN SplitLoop(Tail(sentences), Append(current_line, sentence), lines,
                            max_words_per_line)
             ELSE SplitLoop(Tail(sentences), <<sentence>>,
                            IF current_line # <<>> THEN Append(lines, current_line) ELSE lines,
                            max_words_per_line)

split_text_for_subtitles(text, duration) ==
    LET max_words_per_line ==
            IF text # <<>> THEN (duration * 3) \div (1000 * Len(text)) ELSE 10
    IN  SplitLoop(text, <<>>, <<>>, max_words_per_line)

\* VoiceSynthesizer._generate_subtitles_for_section; _format_time cuts
\* the cue times to whole milliseconds
generate_subtitles_for_section(section, index, start_time, duration) ==
    LET lines == split_text_for_subtitles(section.content, duration)
    IN  [i \in 1..Len(lines) |->
            [section |-> index,
             start_time |-> start_time + ((i - 1) * duration) \div Len(lines),
             end_time |-> start_time + (i * duration) \div Len(lines),
             text |-> lines[i]]]

\* VoiceSynthesizer._combine_audio_segments: where in the combined file
\* the k-th segment starts (0.5 s lead-in, 0.2 s or 0.5 s between segments)
RECURSIVE SpeechStart(_, _)
SpeechStart(segments, k) ==
    IF k = 1 THEN 500
    ELSE SpeechStart(segments, k - 1) + segments[k - 1].duration
         + (IF segments[k].emotion # "suspense" THEN 200 ELSE 500)

combine_audio_segments(segments) ==
    IF segments = <<>> THEN "None"
    ELSE IF ~AudioSegment_is_pydub THEN RaisedStr
    ELSE "audio.mp3"

\* VoiceSynthesizer._apply_final_effects: any error returns audio_path
apply_final_effects(audio_path) ==
    IF audio_path = "None" \/ ~AudioSegment_is_pydub THEN audio_path
    ELSE "audio_final.mp3"

VSInit ==
    /\ vs_pc = "idle"
    /\ sections = <<>>
    /\ section_index = 1
    /\ audio_segments = <<>>
    /\ subtitle_cues = <<>>
    /\ current_time = 0
    /\ spoken = {}
    /\ final_audio_path = "None"

\* synthesize_script(script): audio_segments = [], subtitle_cues = [],
\* current_time = 0.0
SynthesizeCall ==
    /\ vs_pc = "idle"
    /\ \E sc \in Scripts : sections' = sc
    /\ vs_pc' = "sections"
    /\ section_index' = 1
    /\ audio_segments' = <<>>
    /\ subtitle_cues' = <<>>
    /\ current_time' = 0
    /\ spoken' = {}
    /\ final_audio_path' = "None"
    /\ UNCHANGED nonVS

\* one pass of "for section in script.sections" (lines 136-155)
SynthesizeSection ==
    /\ vs_pc = "sections" /\ section_index <= Len(sections)
    /\ \E gtts_ok \in BOOLEAN, audio_len \in AudioLens :
         \* gTTS refuses an empty text ("No text to speak")
         /\ gtts_ok => sections[section_index].content # <<>>
         /\ LET section == sections[section_index]
                segment == synthesize_section(section, section_index, current_time,
                                              gtts_ok, audio_len)
            IN  /\ spoken' = IF gtts_ok THEN spoken \cup {section_index} ELSE spoken
                /\ IF ~IsNone(segment)
                   THEN /\ audio_segments' = Append(audio_segments, segment)
                        /\ subtitle_cues' = subtitle_cues \o
                               generate_subtitles_for_section(section, section_index,
                                                              current_time, segment.duration)
                        /\ current_time' = current_time + segment.duration
                   ELSE UNCHANGED <<audio_segments, subtitle_cues, current_time>>
    /\ section_index' = section_index + 1
    /\ UNCHANGED <<vs_pc, sections, final_audio_path>>
    /\ UNCHANGED nonVS

\* lines 157-171: combine, final effects, return; an exception while
\* combining returns (None, [])
SynthesizeReturn ==
    /\ vs_pc = "sections" /\ section_index > Len(sections)
    /\ LET combined == combine_audio_segments(audio_segments)
       IN  IF combined = RaisedStr
           THEN /\ final_audio_path' = "None"
                /\ subtitle_cues' = <<>>
           ELSE /\ final_audio_path' = apply_final_effects(combined)
                /\ UNCHANGED subtitle_cues
    /\ vs_pc' = "returned"
    /\ UNCHANGED <<sections, section_index, audio_segments, current_time, spoken>>
    /\ UNCHANGED nonVS

NextSynth == SynthesizeCall \/ SynthesizeSection \/ SynthesizeReturn

\* --------------- ScriptGenerator.generate_script (src/script_generator.py)
Platforms == { "youtube", "tiktok", "instagram" }

Styles == { "dynamic", "dramatic", "comedic", "analytical" }

\* what the chat completion does: a JSON answer, a plain-text answer, an
\* exception of the client, an answer whose content is None (on which
\* _parse_text_sections raises)
LLMOutcomes == { "json", "text", "api_error", "none_content" }

LLMFailures == { "api_error", "none_content" }

\* Python values by type, for the + of line 445
PyStr == [type |-> "str"]

PyList == [type |-> "list"]

\* str.split()
PySplit(x) == IF x = PyStr THEN PyList ELSE Raised

\* a + b: str + str and list + list concatenate, anything else is a TypeError
PyAdd(a, b) ==
    IF a = Raised \/ b = Raised THEN Raised
    ELSE IF a = b THEN a
    ELSE Raised

\* content.overview[:200] on a None overview is a TypeError
PySlice(c) == IF c.overview_none THEN Raised ELSE PyStr

FallbackSections ==
    << [type |-> "intro", duration_seconds |-> 10],
       [type |-> "plot", duration_seconds |-> 60],
       [type |-> "outro", duration_seconds |-> 15] >>

\* ScriptGenerator._create_fallback_script: word_count is
\* len(intro_text + plot_text + outro_text.split())
create_fallback_script(c, platform) ==
    LET intro_text == PyStr
        plot_text == PyAdd(PySlice(c), PyStr)
        outro_text == PyStr
        word_count_arg == PyAdd(PyAdd(intro_text, plot_text), PySplit(outro_text))
    IN  IF word_count_arg = Raised THEN Raised
        ELSE [kind |-> "GeneratedScript", title |-> c.title,
              sections |-> FallbackSections, total_duration |-> 85,
              target_platform |-> platform]

\* _parse_script_sections on a JSON answer and on a plain-text answer
parse_script_sections(answer) ==
    IF answer = "json"
    THEN << [type |-> "intro", duration_seconds |-> 8],
            [type |-> "hook", duration_seconds |-> 12],
            [type |-> "plot", duration_seconds |-> 75] >>
    ELSE << [type |-> "plot", duration_seconds |-> 10] >>

RECURSIVE SumDurations(_)
SumDurations(ss) ==
    IF ss = <<>> THEN 0 ELSE Head(ss).duration_seconds + SumDurations(Tail(ss))

SGInit ==
    /\ sg_pc = "idle"
    /\ sg_content = NoneObj
    /\ target_platform = "youtube"
    /\ style = "dynamic"
    /\ llm = "none"
    /\ sg_result = NoneObj
    /\ sg_raised = FALSE

\* generate_script(content, target_platform, duration_target, style)
GenerateScriptCall ==
    /\ sg_pc = "idle"
    /\ \E c \in Items, p \in Platforms, st \in Styles :
         /\ sg_content' = c
         /\ target_platform' = p
         /\ style' = st
    /\ sg_pc' = "try"
    /\ UNCHANGED <<llm, sg_result, sg_raised>>
    /\ UNCHANGED nonSG

\* the try block (lines 58-99)
GenerateScriptTry ==
    /\ sg_pc = "try"
    /\ \E outcome \in LLMOutcomes :
         /\ llm' = outcome
         /\ IF outcome \in LLMFailures
            THEN /\ sg_pc' = "except"
                 /\ UNCHANGED sg_result
            ELSE /\ sg_pc' = "done"
                 /\ sg_result' =
                       [kind |-> "GeneratedScript", title |-> sg_content.title,
                        sections |-> parse_script_sections(outcome),
                        total_duration |-> SumDurations(parse_script_sections(outcome)),
                        target_platform |-> target_platform]
    /\ UNCHANGED <<sg_content, target_platform, style, sg_raised>>
    /\ UNCHANGED nonSG

\* except Exception: return self._create_fallback_script(content, target_platform)
GenerateScriptExcept ==
    /\ sg_pc = "except"
    /\ LET fb == create_fallback_script(sg_content, target_platform)
       IN  IF fb = Raised
           THEN /\ sg_raised' = TRUE
                /\ UNCHANGED sg_result
           ELSE /\ sg_result' = fb
                /\ UNCHANGED sg_raised
    /\ sg_pc' = "done"
    /\ UNCHANGED <<sg_content, target_platform, style, llm>>
    /\ UNCHANGED nonSG

NextScript == GenerateScriptCall \/ GenerateScriptTry \/ GenerateScriptExcept


\* ----------------------------- CineNorteAutomation.run_full_workflow
\* the content dicts select_content offers
SampleContent ==
    { [id |-> 1, title |-> "Oppenheimer", platform |-> "Netflix"],
      [id |-> 2, title |-> "Barbie", platform |-> "HBO Max"] }

\* Python values of the results dict
PyNone == [kind |-> "None"]

PyText(v) == [kind |-> "str", v |-> v]

PyDict(k) == [kind |-> "dict", keys |-> k]

WorkflowKeys == {"content", "script", "audio", "subtitles", "thumbnail", "seo", "videos"}

\* results = {...} of lines 449-457
InitialResults(c) ==
    [k \in WorkflowKeys |->
        IF k = "content" THEN c
        ELSE IF k = "videos" THEN PyDict({})
        ELSE PyNone]

\* the calls of the try block, in program order, each named by its key
WorkflowOrder == <<"script", "audio", "subtitles", "thumbnail", "seo", "videos">>

WorkflowIndex(st) == CHOOSE i \in 1..Len(WorkflowOrder) : WorkflowOrder[i] = st

NextWorkflowStage(st) ==
    IF WorkflowIndex(st) = Len(WorkflowOrder) THEN "return"
    ELSE WorkflowOrder[WorkflowIndex(st) + 1]

\* generate_script: the prompt file is opened outside the try block; an
\* error of the OpenAI call, of mkdir or of the write gives the fallback text
wf_generate_script(outcome) ==
    IF outcome = "prompt_missing" THEN Raised
    ELSE IF outcome = "llm_ok" THEN PyText("script")
    ELSE PyText("fallback_script")

\* generate_voiceover: any error of the TTS call or of save() gives None
wf_generate_voiceover(tts_ok, dir_exists) ==
    IF tts_ok /\ dir_exists THEN PyText("voiceover.wav") ELSE PyNone

\* generate_subtitles: any error of Whisper or of the write gives None
wf_generate_subtitles(whisper_ok, dir_exists) ==
    IF whisper_ok /\ dir_exists THEN PyText("subtitles.srt") ELSE PyNone

\* create_thumbnail has no handler: img.save raises when it cannot write
wf_create_thumbnail(save_ok, dir_exists) ==
    IF save_ok /\ dir_exists THEN PyText("thumbnail.png") ELSE Raised

\* generate_seo_content: the prompt file is opened outside the try block
wf_generate_seo_content(outcome) ==
    IF outcome = "prompt_missing" THEN Raised
    ELSE PyDict({"titles", "hashtags"})

\* create_video: export_path.mkdir is outside the try block; any error of
\* the rendering gives {}
wf_create_video(outcome) ==
    IF outcome = "mkdir_error" THEN Raised
    ELSE IF outcome = "render_ok" THEN PyDict({"16x9", "9x16", "1x1"})
    ELSE PyDict({})

WFInit ==
    /\ wf_pc = "idle"
    /\ wf_content = PyNone
    /\ wf_results = InitialResults(PyNone)
    /\ stage_value = EmptyDict
    /\ wf_failed = "none"
    /\ project_path_exists = FALSE

\* run_full_workflow(content): lines 445-457
WorkflowCall ==
    /\ wf_pc = "idle"
    /\ \E c \in SampleContent, d \in BOOLEAN :
         /\ wf_content' = c
         /\ wf_results' = InitialResults(c)
         /\ project_path_exists' = d
    /\ wf_pc' = "script"
    /\ stage_value' = EmptyDict
    /\ wf_failed' = "none"
    /\ UNCHANGED nonWF

\* a slip: the handler starts over from the initial dict
WorkflowRaise_discards(st) ==
    /\ wf_failed' = st
    /\ wf_pc' = "return"
    /\ wf_results' = InitialResults(wf_content)
    /\ UNCHANGED stage_value

\* "except Exception as e: print(...)" (lines 481-482): results is untouched
WorkflowRaise(st) ==
    /\ wf_failed' = st
    /\ wf_pc' = "return"
    /\ UNCHANGED <<wf_results, stage_value>>

\* results[st] = value; control moves to the next call
WorkflowStore(st, value) ==
    /\ wf_results' = [wf_results EXCEPT ![st] = value]
    /\ stage_value' = DictPut(stage_value, st, value)
    /\ wf_pc' = NextWorkflowStage(st)
    /\ UNCHANGED wf_failed

WorkflowStage(st, value) ==
    IF value = Raised THEN WorkflowRaise(st) ELSE WorkflowStore(st, value)

\* 1. results['script'] = self.generate_script(content)
WorkflowScript ==
    /\ wf_pc = "script"
    /\ \E outcome \in {"prompt_missing", "llm_ok", "llm_error", "write_error"} :
         /\ WorkflowStage("script", wf_generate_script(outcome))
         /\ project_path_exists' = (project_path_exists \/ outcome \in {"llm_ok", "write_error"})
    /\ UNCHANGED wf_content
    /\ UNCHANGED nonWF

\* 2. results['audio'] = self.generate_voiceover(results['script'], content)
WorkflowAudio ==
    /\ wf_pc = "audio"
    /\ \E tts_ok \in BOOLEAN :
         WorkflowStage("audio", wf_generate_voiceover(tts_ok, project_path_exists))
    /\ UNCHANGED <<wf_content, project_path_exists>>
    /\ UNCHANGED nonWF

\* 3. if results['audio']: results['subtitles'] = self.generate_subtitles(...)
WorkflowSubtitles ==
    /\ wf_pc = "subtitles"
    /\ IF wf_results["audio"] # PyNone
       THEN \E whisper_ok \in BOOLEAN :
               WorkflowStage("subtitles", wf_generate_subtitles(whisper_ok, project_path_exists))
       ELSE /\ wf_pc' = NextWorkflowStage("subtitles")
            /\ UNCHANGED <<wf_results, stage_value, wf_failed>>
    /\ UNCHANGED <<wf_content, project_path_exists>>
    /\ UNCHANGED nonWF

\* 4. results['thumbnail'] = self.create_thumbnail(content)
WorkflowThumbnail ==
    /\ wf_pc = "thumbnail"
    /\ \E save_ok \in BOOLEAN :
         WorkflowStage("thumbnail", wf_create_thumbnail(save_ok, project_path_exists))
    /\ UNCHANGED <<wf_content, project_path_exists>>
    /\ UNCHANGED nonWF

\* 5. results['seo'] = self.generate_seo_content(content)
WorkflowSeo ==
    /\ wf_pc = "seo"
    /\ \E outcome \in {"prompt_missing", "llm_ok", "llm_error"} :
         WorkflowStage("seo", wf_generate_seo_content(outcome))
    /\ UNCHANGED <<wf_content, project_path_exists>>
    /\ UNCHANGED nonWF

\* 6. results['videos'] = self.create_video(content, audio, subtitles)
WorkflowVideos ==
    /\ wf_pc = "videos"
    /\ \E outcome \in {"mkdir_error", "render_ok", "render_error"} :
         WorkflowStage("videos", wf_create_video(outcome))
    /\ UNCHANGED <<wf_content, project_path_exists>>
    /\ UNCHANGED nonWF

\* return results (line 484)
WorkflowReturn ==
    /\ wf_pc = "return"
    /\ wf_pc' = "returned"
    /\ UNCHANGED <<wf_content, wf_results, stage_value, wf_failed, project_path_exists>>
    /\ UNCHANGED nonWF

NextWorkflow ==
    \/ WorkflowCall \/ WorkflowScript \/ WorkflowAudio \/ WorkflowSubtitles
    \/ WorkflowThumbnail \/ WorkflowSeo \/ WorkflowVideos \/ WorkflowReturn


\* ----------------------------- AIOptimizer._calculate_overall_score
\* component scores offered to the function; 140 lies outside [0, 100]
Scores == { 0, 40, 100 }

WideScores == Scores \cup { 140 }

\* seo_analysis: a dict with or without the key 'overall_score'
SeoAnalyses == { EmptyDict } \cup { DictPut(EmptyDict, "overall_score", x) : x \in Scores }

\* dict.get(key, default)
DictGet(d, k, default) == IF k \in DOMAIN d THEN d[k] ELSE default

\* scores are kept as integers in units of 1/200, which represents the
\* hundredths of the weights and the half of audio_score exactly
ScoreUnit == 200

\* a slip: weights that add up to 1.10
weights_heavy_content ==
    [content |-> 35, engagement |-> 25, viral |-> 20, seo |-> 15, visual |-> 10, audio |-> 5]

\* the weights of lines 620-627, in hundredths
weights ==
    [content |-> 25, engagement |-> 25, viral |-> 20, seo |-> 15, visual |-> 10, audio |-> 5]

PyMin(a, b) == IF a <= b THEN a ELSE b

calculate_overall_score(a) ==
    LET seo_score == DictGet(a.seo_analysis, "overall_score", 0)
        \* (volume_consistency + speech_clarity) / 2, doubled
        audio_score_x2 == a.volume_consistency + a.speech_clarity
        overall_score_sum ==
            2 * ( a.content_score * weights.content
                + a.engagement_potential * weights.engagement
                + a.viral_probability * weights.viral
                + seo_score * weights.seo
                + a.visual_impact * weights.visual )
            + audio_score_x2 * weights.audio
    IN  PyMin(100 * ScoreUnit, overall_score_sum)

NoArgs ==
    [content_score |-> 0, engagement_potential |-> 0, viral_probability |-> 0,
     seo_analysis |-> EmptyDict, visual_impact |-> 0,
     volume_consistency |-> 0, speech_clarity |-> 0]

OSInit ==
    /\ os_pc = "idle"
    /\ os_args = NoArgs
    /\ overall_score = 0

OverallScoreCall ==
    /\ os_pc = "idle"
    /\ \E c \in WideScores, e \in Scores, v \in Scores, seo \in SeoAnalyses,
          vi \in Scores, vc \in Scores, sc \in Scores :
         os_args' = [content_score |-> c, engagement_potential |-> e,
                     viral_probability |-> v, seo_analysis |-> seo, visual_impact |-> vi,
                     volume_consistency |-> vc, speech_clarity |-> sc]
    /\ os_pc' = "called"
    /\ UNCHANGED overall_score
    /\ UNCHANGED nonOS

OverallScoreReturn ==
    /\ os_pc = "called"
    /\ overall_score' = calculate_overall_score(os_args)
    /\ os_pc' = "returned"
    /\ UNCHANGED os_args
    /\ UNCHANGED nonOS

NextScore == OverallScoreCall \/ OverallScoreReturn

\* ------------------------------- CineNorteSystem._select_content, by step
\* a slip: the recommended list is passed over after an empty search
NextSource_skips_recommended(src) ==
    IF src = "search" THEN "trending"
    ELSE IF src = "recommended" THEN "trending"
    ELSE "returned"

\* the source consulted after src answered an empty list
NextSource(src) ==
    IF src = "search" THEN "recommended"
    ELSE IF src = "recommended" THEN "trending"
    ELSE "returned"

\* what a source can answer
SourceAnswers(src) == IF src = "recommended" THEN Recommended5 ELSE Feeds

SelInit ==
    /\ sel_pc = "idle"
    /\ sel_query = ""
    /\ consulted = <<>>
    /\ answers = EmptyDict
    /\ sel_raised = "none"
    /\ selected = NoneObj

\* _select_content(content_query, content_type): "if content_query:"
SelectCall ==
    /\ sel_pc = "idle"
    /\ \E q \in Queries :
         /\ sel_query' = q
         /\ sel_pc' = IF q # "" THEN "search" ELSE "recommended"
    /\ consulted' = <<>>
    /\ answers' = EmptyDict
    /\ sel_raised' = "none"
    /\ selected' = NoneObj
    /\ UNCHANGED nonSel

\* one source is asked: it raises (the handler returns None), answers a
\* non-empty list (its first item is returned) or answers an empty list
Consult(src) ==
    /\ consulted' = Append(consulted, src)
    /\ \E exc \in BOOLEAN, ans \in SourceAnswers(src) :
         IF exc
         THEN /\ sel_raised' = src
              /\ sel_pc' = "returned"
              /\ UNCHANGED <<answers, selected>>
         ELSE /\ answers' = DictPut(answers, src, ans)
              /\ UNCHANGED sel_raised
              /\ IF ans # <<>>
                 THEN /\ selected' = ans[1]
                      /\ sel_pc' = "returned"
                 ELSE /\ sel_pc' = NextSource(src)
                      /\ UNCHANGED selected
    /\ UNCHANGED sel_query
    /\ UNCHANGED nonSel

ConsultSearch ==
    /\ sel_pc = "search"
    /\ Consult("search")

ConsultRecommended ==
    /\ sel_pc = "recommended"
    /\ Consult("recommended")

ConsultTrending ==
    /\ sel_pc = "trending"
    /\ Consult("trending")

NextSelect == SelectCall \/ ConsultSearch \/ ConsultRecommended \/ ConsultTrending


vars == <<gcVars, batchVars, nonGC>>

Init ==
    /\ pc = "idle"
    /\ active = "none"
    /\ log = <<>>
    /\ content_query = ""
    /\ LocalsInit
    /\ result = NoneObj
    /\ propagated = FALSE
    /\ whisper_model \in {"base", "None"}
    /\ bpc = "idle"
    /\ count = 0
    /\ contents = <<>>
    /\ bi = 1
    /\ results = <<>>
    /\ batch_result = <<>>
    /\ MFInit
    /\ VGInit
    /\ VSInit
    /\ SGInit
    /\ WFInit
    /\ OSInit
    /\ SelInit

Next ==
    \/ NextGC
    \/ BatchCall \/ BatchIterate \/ BatchCollect \/ BatchReturn

Spec == Init /\ [][Next]_vars

SpecFormats == Init /\ [][NextFormats]_vars

SpecVoice == Init /\ [][NextVoice]_vars

SpecSynth == Init /\ [][NextSynth]_vars

SpecScript == Init /\ [][NextScript]_vars

SpecWorkflow == Init /\ [][NextWorkflow]_vars

SpecScore == Init /\ [][NextScore]_vars

SpecSelect == Init /\ [][NextSelect]_vars

\* ------------------------------------------------------------- claims
ResultKeys == {"content", "files", "videos", "thumbnails", "seo_data", "analysis"}

\* the stages the specification names, in the order it names them
ClaimedOrder ==
    << "select", "script", "voice", "subtitles", "project", "formats", "impact",
       "save_script", "save_srt", "save_vtt", "save_report" >>

ClaimedStages == { ClaimedOrder[i] : i \in 1..Len(ClaimedOrder) }

IsPrefix(s, t) == Len(s) <= Len(t) /\ \A i \in 1..Len(s) : s[i] = t[i]

\* C1: within one call of generate_content the stages are invoked in the
\* order content selection, script, text-to-speech, subtitles, video project,
\* multi-format export, impact scoring, file writes (script, SRT, VTT,
\* report), each at most once, and a stage starts only when every stage
\* started before it has returned.
C1_StagesInOrder ==
    /\ IsPrefix(SelectSeq(log, LAMBDA s : s \in ClaimedStages), ClaimedOrder)
    /\ IsPrefix(log, StageOrder)
    /\ active # "none" => (log # <<>> /\ active = log[Len(log)] /\ active = pc)

\* a call that ran every stage to the end
C1_Witness ==
    /\ pc = "done"
    /\ DOMAIN result = ResultKeys
    /\ log = StageOrder

\* C2 (as stated): once a content item has been selected, whatever a stage
\* raises is replaced by that stage's default and the call returns the full
\* results dict, never the error dict.
C2_StageFailuresAbsorbed ==
    (pc = "done" /\ Len(log) >= 2) => DOMAIN result = ResultKeys

\* C3: generate_content never lets an exception reach its caller: it returns
\* a dict with exactly the six result keys or a dict whose only key is error.
C3_ReturnsDict ==
    pc = "done" =>
        /\ ~propagated
        /\ \/ DOMAIN result = ResultKeys
           \/ DOMAIN result = {"error"}

\* a call that failed after the content was selected and came back as an
\* error dict
C3_Witness ==
    /\ pc = "done"
    /\ DOMAIN result = {"error"}
    /\ Len(log) >= 10

\* C10: generate_batch_content returns one entry (results dict or error
\* dict) per item of get_recommended_content(limit=count), in the order of
\* the items, also when the generation of an earlier item failed.
C10_OneEntryPerItem ==
    /\ bpc \in {"loop", "calling"} => Len(results) = bi - 1
    /\ bpc = "returned" =>
          /\ Len(batch_result) = Len(contents)
          /\ Len(contents) <= count
          /\ \A i \in 1..Len(contents) :
                /\ batch_result[i].query = contents[i].title
                /\ batch_result[i].keys \in {ResultKeys, {"error"}}

\* a batch of two items whose first generation failed and whose second
\* succeeded
C10_Witness ==
    /\ bpc = "returned"
    /\ Len(batch_result) = 2
    /\ batch_result[1].keys = {"error"}
    /\ batch_result[2].keys = ResultKeys


\* C4: a call of generate_all_formats that returns has run generate_format
\* exactly once for each of the six formats, whatever the earlier ones
\* returned, and its dict has a key for a format exactly when generate_format
\* returned a non-empty path for it.
C4_EveryFormatOnce ==
    /\ \A f \in Formats : attempts[f] <= 1
    /\ mf_pc = "returned" =>
          \A f \in Formats :
              /\ attempts[f] = 1
              /\ (f \in DOMAIN mf_output_paths) <=> (returned[f] # "")
              /\ f \in DOMAIN mf_output_paths => mf_output_paths[f] = returned[f]

\* the first format failed, the last one was still rendered
C4_Witness ==
    /\ mf_pc = "returned"
    /\ returned["youtube"] = ""
    /\ returned["twitter"] # ""
    /\ "twitter" \in DOMAIN mf_output_paths

\* C8 (as stated): for a project with a title whose thumbnails were all
\* drawn and saved without error, generate_thumbnails returns one path per
\* format, six entries.
C8_ThumbnailPerFormat ==
    (mf_pc = "thumbnails_returned" /\ ~IsNone(mf_project) /\ drawn = Formats)
        => DOMAIN mf_thumbnails = Formats


Range(q) == { q[i] : i \in 1..Len(q) }

\* C6: generate_voice_with_elevenlabs tries ElevenLabs (when a key is
\* configured), then gTTS, then pyttsx3, each only after the one before it
\* failed; it ends by returning a string; the string is a non-empty path as
\* soon as an engine it tried succeeded and is empty only after every engine
\* has been tried and has failed.
C6_FallbackChain ==
    /\ \E n \in 0..Len(EngineOrder), k \in 0..1 :
          /\ k + n <= Len(EngineOrder)
          /\ tried = SubSeq(EngineOrder, k + 1, k + n)
    /\ ("elevenlabs" \in Range(tried)) => elevenlabs_key # ""
    /\ vg_pc \in {"idle", "elevenlabs", "gtts", "pyttsx3", "returned"}
    /\ vg_pc = "returned" =>
          /\ tried # <<>>
          /\ (vg_result # "") <=> (succeeded # {})
          /\ succeeded \subseteq {tried[Len(tried)]}
          /\ vg_result = "" =>
                tried = IF elevenlabs_key # "" THEN EngineOrder
                        ELSE SubSeq(EngineOrder, 2, 3)

\* ElevenLabs and gTTS failed, pyttsx3 produced the file
C6_Witness ==
    /\ vg_pc = "returned"
    /\ tried = EngineOrder
    /\ succeeded = {"pyttsx3"}
    /\ vg_result # ""


\* the position of section i among the segments of the combined audio
SegmentOf(i) == { k \in 1..Len(audio_segments) : audio_segments[k].section = i }

CuesOf(i) == { c \in Range(subtitle_cues) : c.section = i }

\* C5 (as stated): the cues synthesize_script returns are synchronized with
\* the combined audio: every section that was spoken has its place in the
\* combined file, and each of its cues starts no earlier than the section's
\* speech starts there (after the 0.5 s lead-in and the pauses between
\* sections) and ends no later than the speech ends.
C5_CuesSynchronized ==
    vs_pc = "returned" =>
        \A i \in spoken :
            /\ final_audio_path # "None"
            /\ \E k \in SegmentOf(i) :
                  \A c \in CuesOf(i) :
                      /\ SpeechStart(audio_segments, k) <= c.start_time
                      /\ c.end_time <= SpeechStart(audio_segments, k)
                                          + audio_segments[k].duration

\* C9 (as stated): when text-to-speech succeeded for every section the
\* returned audio path is not None and every section with text has a cue;
\* (None, []) comes back only when the synthesis of some section failed.
C9_AudioAndCues ==
    (vs_pc = "returned" /\ sections # <<>> /\ spoken = 1..Len(sections)) =>
        /\ final_audio_path # "None"
        /\ \A i \in 1..Len(sections) : sections[i].content # <<>> => CuesOf(i) # {}

\* C7 (as stated): when the OpenAI call or the parsing of its answer fails
\* generate_script does not raise and returns the fallback script: sections
\* intro 10 s, plot 60 s, outro 15 s, total_duration 85.
C7_FallbackScript ==
    (sg_pc = "done" /\ llm \in LLMFailures) =>
        /\ ~sg_raised
        /\ sg_result # NoneObj
        /\ sg_result.sections = FallbackSections
        /\ sg_result.total_duration = 85

\* C11: run_full_workflow always returns a dict with exactly the keys
\* content, script, audio, subtitles, thumbnail, seo and videos; when a
\* stage raised, every earlier stage's entry holds what that stage returned
\* (subtitles stays None when it was skipped for lack of audio) and the
\* entries of the failed stage and of every later stage hold their initial
\* values.
C11_PartialResultsKept ==
    /\ wf_pc \in {"idle", "return", "returned"} \cup Range(WorkflowOrder)
    /\ wf_pc = "returned" =>
          /\ DOMAIN wf_results = WorkflowKeys
          /\ wf_results["content"] = wf_content
          /\ \A i \in 1..Len(WorkflowOrder) :
                LET st == WorkflowOrder[i]
                IN  IF wf_failed # "none" /\ i >= WorkflowIndex(wf_failed)
                    THEN wf_results[st] = InitialResults(wf_content)[st]
                    ELSE wf_results[st] =
                            IF st \in DOMAIN stage_value THEN stage_value[st]
                            ELSE InitialResults(wf_content)[st]

\* the thumbnail could not be saved after script and audio were produced
C11_Witness ==
    /\ wf_pc = "returned"
    /\ wf_failed = "thumbnail"
    /\ wf_results["script"] = PyText("script")
    /\ wf_results["audio"] = PyText("voiceover.wav")
    /\ wf_results["seo"] = PyNone

\* the six component scores of a call, audio doubled
ComponentsInRange ==
    /\ os_args.content_score \in 0..100
    /\ os_args.engagement_potential \in 0..100
    /\ os_args.viral_probability \in 0..100
    /\ DictGet(os_args.seo_analysis, "overall_score", 0) \in 0..100
    /\ os_args.visual_impact \in 0..100
    /\ os_args.volume_consistency + os_args.speech_clarity \in 0..200

\* C12: the weights are 0.25, 0.25, 0.20, 0.15, 0.10, 0.05 and add up to 1;
\* when every component score lies in [0, 100] the value returned is the
\* weighted sum of the components and lies in [0, 100] (scores in 1/200).
C12_WeightedSumInRange ==
    (os_pc = "returned" /\ ComponentsInRange) =>
        /\ overall_score =
              50 * os_args.content_score + 50 * os_args.engagement_potential
              + 40 * os_args.viral_probability
              + 30 * DictGet(os_args.seo_analysis, "overall_score", 0)
              + 20 * os_args.visual_impact
              + 5 * (os_args.volume_consistency + os_args.speech_clarity)
        /\ overall_score >= 0
        /\ overall_score <= 100 * ScoreUnit

\* every component at its maximum: the score is exactly 100
C12_Witness ==
    /\ os_pc = "returned"
    /\ ComponentsInRange
    /\ os_args.content_score = 100
    /\ os_args.volume_consistency + os_args.speech_clarity = 200
    /\ overall_score = 100 * ScoreUnit

\* C13: when _select_content gives no item, generate_content returns the
\* error dict and no call after the selection is started; a later stage is
\* only ever started with a content item selected.
C13_NoContentStopsPipeline ==
    /\ (pc = "done" /\ result = [error |-> "No se pudo seleccionar contenido"])
          => log = <<"select">>
    /\ (pc \in Stages /\ Len(log) >= 2) => ~IsNone(content)

\* a call that ended at the selection
C13_Witness ==
    /\ pc = "done"
    /\ result = [error |-> "No se pudo seleccionar contenido"]
    /\ log = <<"select">>

\* what a source answered in this call, [] when it was not asked or raised
AnswerOf(src) == DictGet(answers, src, <<>>)

SourceChain ==
    IF sel_query # "" THEN <<"search", "recommended", "trending">>
    ELSE <<"recommended", "trending">>

\* C14: _select_content asks search (only with a query), then the
\* recommended list, then the trending list, stopping at the first source
\* that answers a non-empty list, whose first item it returns; it returns
\* None only when a source raised or every source of the chain answered an
\* empty list.
C14_SourcesInOrder ==
    /\ IsPrefix(consulted, SourceChain)
    /\ sel_pc = "returned" =>
          /\ consulted # <<>>
          /\ \A i \in 1..(Len(consulted) - 1) :
                consulted[i] \in DOMAIN answers /\ answers[consulted[i]] = <<>>
          /\ ~IsNone(selected) =>
                /\ sel_raised = "none"
                /\ AnswerOf(consulted[Len(consulted)]) # <<>>
                /\ selected = AnswerOf(consulted[Len(consulted)])[1]
          /\ IsNone(selected) =>
                \/ sel_raised = consulted[Len(consulted)]
                \/ /\ consulted = SourceChain
                   /\ \A src \in Range(SourceChain) : AnswerOf(src) = <<>>
          /\ selected = select_content(sel_query, AnswerOf("search"),
                                       AnswerOf("recommended"), AnswerOf("trending"),
                                       sel_raised # "none")

\* the search found nothing, the recommendations were empty, the trending
\* list gave the item
C14_Witness ==
    /\ sel_pc = "returned"
    /\ consulted = <<"search", "recommended", "trending">>
    /\ ~IsNone(selected)
    /\ selected = AnswerOf("trending")[1]

====
